---- MODULE Spec2Model ----
(***************************************************************************)
(* A model of the MySQL batching sink of src/mysql_sink/main.py: lazy      *)
(* table creation with schema inference from the first record, a schema    *)
(* that is locked once table_name is set, and the retry / backpressure     *)
(* loop of MySQLSink.write.                                                *)
(*                                                                         *)
(* Python values are tagged records [type, repr]; a dict is the sequence   *)
(* of its <<key, value>> items in insertion order; an Optional field is    *)
(* <<>> for None and <<x>> for a set value x.                              *)
(***************************************************************************)
EXTENDS Integers, Sequences, FiniteSets, TLC

(***************************************************************************)
(* Bounds of the model.                                                    *)
(***************************************************************************)
\* longest batch handed to write
MaxBatchLen == 2
\* last clock second of a run (time.time() ranges over 0..MaxTime)
MaxTime == 6
\* highest partition number of a batch
MaxPartition == 1
\* most columns of a sample record drawn for schema inference
MaxCols == 2

MaxRows == 2

\* most variables in one call of update_application_variables
MaxVars == 1

(***************************************************************************)
(* Program constants.                                                      *)
(***************************************************************************)
\* attempts_remaining = 3
MaxAttempts == 3
\* time.sleep(3)
SleepSeconds == 3
\* retry_after=30.0
RetryAfter == 30
(***************************************************************************)
(* Strings as character sequences, for str.lower(), `word in col` and      *)
(* strptime.  Chars gives the characters of every string of the model.     *)
(***************************************************************************)
Chars(str) ==
  CASE str = "speed"     -> <<"s","p","e","e","d">>
    [] str = "flag"      -> <<"f","l","a","g">>
    [] str = "count"     -> <<"c","o","u","n","t">>
    [] str = "ts"        -> <<"t","s">>
    [] str = "dat"       -> <<"d","a","t">>
    [] str = "uptime"    -> <<"u","p","t","i","m","e">>
    [] str = "EventDate" -> <<"E","v","e","n","t","D","a","t","e">>
    [] str = "TIMESTAMP" -> <<"T","I","M","E","S","T","A","M","P">>
    [] str = "time"      -> <<"t","i","m","e">>
    [] str = "date"      -> <<"d","a","t","e">>
    [] str = "timestamp" -> <<"t","i","m","e","s","t","a","m","p">>
    [] str = "hello"     -> <<"h","e","l","l","o">>
    [] str = ""          -> <<>>
    [] str = "2024-01-01" ->
         <<"2","0","2","4","-","0","1","-","0","1">>
    [] str = "2024-01-01 00:00:00" ->
         <<"2","0","2","4","-","0","1","-","0","1"," ",
           "0","0",":","0","0",":","0","0">>
    [] str = "2024-01-01 00:00:00.000000" ->
         <<"2","0","2","4","-","0","1","-","0","1"," ",
           "0","0",":","0","0",":","0","0",".","0","0","0","0","0","0">>
    [] str = "2024-1-1 0:0:0.5" ->
         <<"2","0","2","4","-","1","-","1"," ","0",":","0",":","0",".","5">>
    [] str = "2023-02-29 10:00:00.0" ->
         <<"2","0","2","3","-","0","2","-","2","9"," ",
           "1","0",":","0","0",":","0","0",".","0">>
    [] str = "2024-02-29 23:59:59.123456" ->
         <<"2","0","2","4","-","0","2","-","2","9"," ",
           "2","3",":","5","9",":","5","9",".","1","2","3","4","5","6">>
    [] str = "2024-13-01 00:00:00.0" ->
         <<"2","0","2","4","-","1","3","-","0","1"," ",
           "0","0",":","0","0",":","0","0",".","0">>
    [] str = "2024-01-01T00:00:00.0" ->
         <<"2","0","2","4","-","0","1","-","0","1","T",
           "0","0",":","0","0",":","0","0",".","0">>
    [] str = "2024-01-01 00:00:00.0000000" ->
         <<"2","0","2","4","-","0","1","-","0","1"," ",
           "0","0",":","0","0",":","0","0",".","0","0","0","0","0","0","0">>
    [] str = "2024-01- 5 00:00:00.0" ->
         <<"2","0","2","4","-","0","1","-"," ","5"," ","0","0",":","0","0",":","0","0",".","0">>
    [] str = "2024-01-01 00:00:60.0" ->
         <<"2","0","2","4","-","0","1","-","0","1"," ","0","0",":","0","0",":","6","0",".","0">>

UpperCase ==
  <<"A","B","C","D","E","F","G","H","I","J","K","L","M",
    "N","O","P","Q","R","S","T","U","V","W","X","Y","Z">>

LowerCase ==
  <<"a","b","c","d","e","f","g","h","i","j","k","l","m",
    "n","o","p","q","r","s","t","u","v","w","x","y","z">>

\* str.lower() on a character sequence
Lower(s) ==
  [i \in 1..Len(s) |->
     IF \E k \in 1..Len(UpperCase) : UpperCase[k] = s[i]
     THEN LowerCase[CHOOSE k \in 1..Len(UpperCase) : UpperCase[k] = s[i]]
     ELSE s[i]]

\* `word in s` for two character sequences
Contains(word, s) ==
  \E i \in 1..(Len(s) - Len(word) + 1) : SubSeq(s, i, i + Len(word) - 1) = word

\* any(word in col.lower() for word in ['time', 'date', 'timestamp'])
TimeWords == {"time", "date", "timestamp"}

HasTimeWord(col) ==
  \E word \in TimeWords : Contains(Chars(word), Lower(Chars(col)))

(***************************************************************************)
(* datetime.datetime.strptime(value, '%Y-%m-%d %H:%M:%S.%f').  The format  *)
(* compiles to the regular expression                                      *)
(*   (\d\d\d\d)-(1[0-2]|0[1-9]|[1-9])-(3[0-1]|[1-2]\d|0[1-9]|[1-9]| [1-9]) *)
(*   \s+(2[0-3]|[0-1]\d|\d):([0-5]\d|\d):(6[0-1]|[0-5]\d|\d)\.([0-9]{1,6}) *)
(* which must match the whole string; the fields are then handed to the    *)
(* datetime constructor, which rejects year 0, a day the month does not    *)
(* have and a second above 59.  Every field is delimited by a character    *)
(* that is no digit, so a field is a maximal run of digits.                *)
(***************************************************************************)
Digits == <<"0","1","2","3","4","5","6","7","8","9">>

IsDigit(c) == \E k \in 1..Len(Digits) : Digits[k] = c

DigitVal(c) == (CHOOSE k \in 1..Len(Digits) : Digits[k] = c) - 1

Whitespace == {" ", "\t", "\n", "\r"}

\* the character at position i, "" past the end of the string
At(s, i) == IF i \in 1..Len(s) THEN s[i] ELSE ""

\* the first position at or after i that holds no digit
DigitsEnd(s, i) ==
  CHOOSE j \in i..(Len(s) + 1) :
    /\ \A k \in i..(j - 1) : IsDigit(At(s, k))
    /\ ~IsDigit(At(s, j))

\* the first position at or after i that holds no whitespace
SpaceEnd(s, i) ==
  CHOOSE j \in i..(Len(s) + 1) :
    /\ \A k \in i..(j - 1) : At(s, k) \in Whitespace
    /\ At(s, j) \notin Whitespace

RECURSIVE Number(_, _, _)
\* the number written by the digits s[i..j-1]
Number(s, i, j) ==
  IF j <= i THEN 0 ELSE 10 * Number(s, i, j - 1) + DigitVal(s[j - 1])

IsLeap(y) == (y % 4 = 0) /\ ((y % 100 # 0) \/ (y % 400 = 0))

DaysInMonth(y, m) ==
  IF m = 2 THEN (IF IsLeap(y) THEN 29 ELSE 28)
  ELSE IF m \in {4, 6, 9, 11} THEN 30 ELSE 31

\* "ok" when strptime returns a datetime, "ValueError" when it raises
Strptime(s) ==
  LET y1 == 1
      y2 == DigitsEnd(s, y1)
      m1 == y2 + 1
      m2 == DigitsEnd(s, m1)
      padded == At(s, m2 + 1) = " "
      d1 == IF padded THEN m2 + 2 ELSE m2 + 1
      d2 == DigitsEnd(s, d1)
      h1 == SpaceEnd(s, d2)
      h2 == DigitsEnd(s, h1)
      n1 == h2 + 1
      n2 == DigitsEnd(s, n1)
      s1 == n2 + 1
      s2 == DigitsEnd(s, s1)
      f1 == s2 + 1
      f2 == DigitsEnd(s, f1)
      year == Number(s, y1, y2)
      month == Number(s, m1, m2)
      day == Number(s, d1, d2)
      hour == Number(s, h1, h2)
      minute == Number(s, n1, n2)
      second == Number(s, s1, s2)
      matches ==
        /\ y2 - y1 = 4 /\ At(s, y2) = "-"
        /\ m2 - m1 \in {1, 2} /\ month \in 1..12 /\ At(s, m2) = "-"
        /\ IF padded THEN d2 - d1 = 1 /\ day \in 1..9
                     ELSE d2 - d1 \in {1, 2} /\ day \in 1..31
        /\ h1 > d2
        /\ h2 - h1 \in {1, 2} /\ hour \in 0..23 /\ At(s, h2) = ":"
        /\ n2 - n1 \in {1, 2} /\ minute \in 0..59 /\ At(s, n2) = ":"
        /\ s2 - s1 \in {1, 2} /\ second \in 0..61 /\ At(s, s2) = "."
        /\ f2 - f1 >= 1
      \* the regular expression takes at most six digits of the fraction
      whole == f2 - f1 <= 6 /\ f2 = Len(s) + 1
      valid == year >= 1 /\ day <= DaysInMonth(year, month) /\ second <= 59
  IN IF matches /\ whole /\ valid THEN "ok" ELSE "ValueError"

(***************************************************************************)
(* Python values and records.                                              *)
(***************************************************************************)
Py(type, repr) == [type |-> type, repr |-> repr]

PyNone == Py("NoneType", "None")
PyTrue == Py("bool", "True")
PyFalse == Py("bool", "False")

\* the classes of a value's type, the type itself first: bool is a subclass
\* of int
Mro(type) == IF type = "bool" THEN {"bool", "int"} ELSE {type}

\* isinstance(value, classes)
IsInstance(value, classes) == Mro(value.type) \cap classes # {}

StrValues ==
  {"hello", "2024-01-01", "2024-01-01 00:00:00.000000", "2024-1-1 0:0:0.5",
   "2023-02-29 10:00:00.0", "2024-01-01 00:00:00.0000000",
   "2024-01-01 00:00:60.0"}

Values ==
  {PyNone, PyTrue, PyFalse, Py("int", "0"), Py("int", "3"),
   Py("float", "12.5"), Py("list", "[1, 2]")}
    \cup {Py("str", v) : v \in StrValues}

ColNames == {"ts", "dat", "uptime", "EventDate", "TIMESTAMP"}

\* dict.keys(), in insertion order
Keys(record) == [i \in 1..Len(record) |-> record[i][1]]

\* record[col]
Item(record, col) ==
  record[CHOOSE i \in 1..Len(record) : record[i][1] = col][2]

\* record.get(col, None)
Get(record, col) ==
  IF \E i \in 1..Len(record) : record[i][1] = col
  THEN Item(record, col) ELSE PyNone

\* the dicts of at most n items over the given keys and values
RECURSIVE Dicts(_, _, _)
Dicts(keys, values, n) ==
  IF n = 0 THEN {<<>>}
  ELSE LET shorter == Dicts(keys, values, n - 1)
           longest == {d \in shorter : Len(d) = n - 1}
           fresh == {x \in longest \X keys \X values :
                       \A i \in 1..Len(x[1]) : x[1][i][1] # x[2]}
       IN shorter \cup {Append(x[1], <<x[2], x[3]>>) : x \in fresh}

(***************************************************************************)
(* Schema inference: the loop of _create_table over self.columns.          *)
(***************************************************************************)
Varchar == "VARCHAR(255)"

\* ColumnType without the test of the column name: any string that parses
\* becomes a TIMESTAMP
ColumnType_AnyNameTimestamp(col, value) ==
  IF value = PyNone THEN "VARCHAR(255) NULL"
  ELSE IF IsInstance(value, {"int", "float"})
       THEN (IF IsInstance(value, {"int"}) THEN "INT" ELSE "FLOAT")
  ELSE IF IsInstance(value, {"str"})
       THEN (IF Strptime(Chars(value.repr)) = "ok"
             THEN "TIMESTAMP" ELSE Varchar)
  ELSE Varchar

\* ColumnType without the call of strptime: any string in a column named
\* like a time becomes a TIMESTAMP
ColumnType_NoParseCheck(col, value) ==
  IF value = PyNone THEN "VARCHAR(255) NULL"
  ELSE IF IsInstance(value, {"int", "float"})
       THEN (IF IsInstance(value, {"int"}) THEN "INT" ELSE "FLOAT")
  ELSE IF IsInstance(value, {"str"})
       THEN (IF HasTimeWord(col) THEN "TIMESTAMP" ELSE Varchar)
  ELSE Varchar

\* the column type _create_table appends for column col with sampled value
ColumnType(col, value) ==
  IF value = PyNone THEN "VARCHAR(255) NULL"
  ELSE IF IsInstance(value, {"int", "float"})
       THEN (IF IsInstance(value, {"int"}) THEN "INT" ELSE "FLOAT")
  ELSE IF IsInstance(value, {"bool"}) THEN "BOOLEAN"
  ELSE IF IsInstance(value, {"str"})
       THEN (IF HasTimeWord(col)
             THEN (IF Strptime(Chars(value.repr)) = "ok"
                   THEN "TIMESTAMP" ELSE Varchar)
             ELSE Varchar)
  ELSE Varchar

\* columns_sql: one <<column, type>> per column, in the order of columns
ColumnsSql(cols, sample_data) ==
  [i \in 1..Len(cols) |-> <<cols[i], ColumnType(cols[i], Item(sample_data, cols[i]))>>]

IdColumn == <<"id", "INT AUTO_INCREMENT PRIMARY KEY">>

\* CreateTableSql with the id column put first
CreateTableSql_IdFirst(name, cols, sample_data) ==
  [statement |-> "CREATE TABLE IF NOT EXISTS",
   table |-> name,
   columns |-> <<IdColumn>> \o ColumnsSql(cols, sample_data)]

\* create_table_sql
CreateTableSql(name, cols, sample_data) ==
  [statement |-> "CREATE TABLE IF NOT EXISTS",
   table |-> name,
   columns |-> Append(ColumnsSql(cols, sample_data), IdColumn)]

(***************************************************************************)
(* Batches.  A batch has one topic, one partition and the values of its    *)
(* items in order.                                                         *)
(***************************************************************************)
Topics == {"input"}

Partitions == 0..MaxPartition

\* scenario A of the specification
RecA ==
  << <<"speed", Py("float", "12.5")>>,
     <<"ts", Py("str", "2024-01-01 00:00:00.000000")>> >>

\* scenario B of the specification
RecB == << <<"flag", PyTrue>>, <<"count", Py("int", "3")>> >>

BatchRecords == {RecA, RecB}

RECURSIVE SeqsUpTo(_, _)
\* the sequences of at most n elements of S
SeqsUpTo(S, n) ==
  IF n = 0 THEN {<<>>}
  ELSE LET shorter == SeqsUpTo(S, n - 1)
       IN shorter \cup {Append(q, x) : q \in {r \in shorter : Len(r) = n - 1}, x \in S}

Batches ==
  [topic : Topics, partition : Partitions,
   items : SeqsUpTo(BatchRecords, MaxBatchLen)]

(***************************************************************************)
(* The database driver.  Each call of _write_to_mysql meets at most one    *)
(* failure, since the first failing driver call ends it: a fault names the *)
(* driver call that fails and how.  "Error" is mysql.connector.Error;      *)
(* ConnectionError and TimeoutError are the built-in exceptions that       *)
(* write distinguishes; "not_connected" is a session whose is_connected()  *)
(* is false.                                                               *)
(***************************************************************************)
DriverCalls ==
  {"connect", "ddl_cursor", "execute", "ddl_commit",
   "dml_cursor", "executemany", "dml_commit"}

Raised == {"Error", "ConnectionError", "TimeoutError"}

NoFault == [at |-> "none", kind |-> "ok"]

Faults ==
  {NoFault} \cup [at : DriverCalls, kind : Raised]
    \cup {[at |-> "connect", kind |-> "not_connected"]}

\* what driver call `call` does under fault f
Outcome(f, call) == IF f.at = call THEN f.kind ELSE "ok"

(***************************************************************************)
(* The sink object.  self is [connection, table_name, columns]; a method   *)
(* gives [self, kind, value, log, create_table_sql, insert]: the object    *)
(* afterwards, "return" with the value or "raise" with the exception, the  *)
(* driver calls it made, and the statements it submitted.                  *)
(***************************************************************************)
None == <<>>

Some(x) == <<x>>

\* MySQLSink.__init__
NewSink == [connection |-> None, table_name |-> None, columns |-> None]

Event(op, outcome) == [op |-> op, outcome |-> outcome]

Return(self, value, log, sql, insert) ==
  [self |-> self, kind |-> "return", value |-> value, log |-> log,
   create_table_sql |-> sql, insert |-> insert]

Raise(self, exc, log, sql, insert) ==
  [self |-> self, kind |-> "raise", value |-> exc, log |-> log,
   create_table_sql |-> sql, insert |-> insert]

\* the end of a try block whose driver call failed with `outcome`:
\* `except Error` returns False, any other exception propagates
ExceptError(self, outcome, log, sql, insert) ==
  IF outcome = "Error" THEN Return(self, "False", log, sql, insert)
  ELSE Raise(self, outcome, log, sql, insert)

\* ConnectToMysql without the test of is_connected()
ConnectToMysql_AnySession(self, f) ==
  LET o == Outcome(f, "connect")
      log == <<Event("connect", o)>>
  IN CASE o = "ok" ->
            Return([self EXCEPT !.connection = Some([is_connected |-> TRUE])],
                   "True", log, None, None)
       [] o = "not_connected" ->
            Return([self EXCEPT !.connection = Some([is_connected |-> FALSE])],
                   "True", log, None, None)
       [] OTHER -> ExceptError(self, o, log, None, None)

\* MySQLSink._connect_to_mysql
ConnectToMysql(self, f) ==
  LET o == Outcome(f, "connect")
      log == <<Event("connect", o)>>
  IN CASE o = "ok" ->
            Return([self EXCEPT !.connection = Some([is_connected |-> TRUE])],
                   "True", log, None, None)
       [] o = "not_connected" ->
            Return([self EXCEPT !.connection = Some([is_connected |-> FALSE])],
                   "None", log, None, None)
       [] OTHER -> ExceptError(self, o, log, None, None)

\* f"kafka_{int(time.time())}"
TableName(t) == <<"kafka_", t>>

\* CreateTableConnected that names the table before it asks for the cursor
CreateTableConnected_NameFirst(c, data, f, t) ==
  LET o1 == Outcome(f, "ddl_cursor")
      o2 == Outcome(f, "execute")
      o3 == Outcome(f, "ddl_commit")
      log1 == Append(c.log, Event("cursor", o1))
      cols == Keys(data[1])
      first == [c.self EXCEPT !.table_name = Some(TableName(t))]
      named == [first EXCEPT !.columns = Some(cols)]
      sql == Some(CreateTableSql(TableName(t), cols, data[1]))
      log2 == log1 \o <<Event("infer", "ok"), Event("CREATE TABLE", o2)>>
      log3 == Append(log2, Event("commit", o3))
  IN IF c.kind = "raise" THEN c
     ELSE IF c.value # "True" THEN Return(c.self, "False", c.log, None, None)
     ELSE IF o1 # "ok" THEN ExceptError(first, o1, log1, None, None)
     ELSE IF Len(data) = 0
          THEN Raise(first, "IndexError",
                     Append(log1, Event("infer", "IndexError")), None, None)
     ELSE IF o2 # "ok" THEN ExceptError(named, o2, log2, sql, None)
     ELSE IF o3 # "ok" THEN ExceptError(named, o3, log3, sql, None)
     ELSE Return(named, "True", log3, sql, None)

\* _create_table from `if not self._connect_to_mysql()` on, where
\* _connect_to_mysql ended as c
CreateTableConnected(c, data, f, t) ==
  LET o1 == Outcome(f, "ddl_cursor")
      o2 == Outcome(f, "execute")
      o3 == Outcome(f, "ddl_commit")
      log1 == Append(c.log, Event("cursor", o1))
      cols == Keys(data[1])
      named == [c.self EXCEPT !.columns = Some(cols),
                              !.table_name = Some(TableName(t))]
      sql == Some(CreateTableSql(TableName(t), cols, data[1]))
      log2 == log1 \o <<Event("infer", "ok"), Event("CREATE TABLE", o2)>>
      log3 == Append(log2, Event("commit", o3))
  IN IF c.kind = "raise" THEN c
     ELSE IF c.value # "True" THEN Return(c.self, "False", c.log, None, None)
     ELSE IF o1 # "ok" THEN ExceptError(c.self, o1, log1, None, None)
     ELSE IF Len(data) = 0
          THEN Raise(c.self, "IndexError",
                     Append(log1, Event("infer", "IndexError")), None, None)
     ELSE IF o2 # "ok" THEN ExceptError(named, o2, log2, sql, None)
     ELSE IF o3 # "ok" THEN ExceptError(named, o3, log3, sql, None)
     ELSE Return(named, "True", log3, sql, None)

\* MySQLSink._create_table, called at clock second t
CreateTable(self, data, f, t) ==
  CreateTableConnected(ConnectToMysql(self, f), data, f, t)

\* RowValues that takes the values of a record by position
RowValues_ByPosition(cols, data) ==
  [i \in 1..Len(data) |->
     [j \in 1..Len(cols) |->
        IF j <= Len(data[i]) THEN data[i][j][2] ELSE PyNone]]

\* RowValues that adds the values of the keys that are no column
RowValues_ExtraKeys(cols, data) ==
  [i \in 1..Len(data) |->
     LET NoColumn(pair) == \A j \in 1..Len(cols) : cols[j] # pair[1]
         extra == SelectSeq(data[i], NoColumn)
     IN [j \in 1..Len(cols) |-> Get(data[i], cols[j])]
          \o [k \in 1..Len(extra) |-> extra[k][2]]]

\* values: tuple(record.get(col, None) for col in self.columns) per item
RowValues(cols, data) ==
  [i \in 1..Len(data) |-> [j \in 1..Len(cols) |-> Get(data[i], cols[j])]]

\* Insert that rolls the open transaction back before it submits
Insert_RollbackFirst(self, data, f, log0, sql) ==
  LET o1 == IF self.connection = None THEN "AttributeError"
            ELSE Outcome(f, "dml_cursor")
      o2 == Outcome(f, "executemany")
      o3 == Outcome(f, "dml_commit")
      log1 == log0 \o <<Event("rollback", "ok"), Event("cursor", o1)>>
      stmt == Some([statement |-> "INSERT INTO",
                    table |-> self.table_name[1],
                    columns |-> self.columns[1],
                    values |-> RowValues(self.columns[1], data)])
      log2 == Append(log1, Event("INSERT", o2))
      log3 == Append(log2, Event("commit", o3))
  IN IF o1 # "ok" THEN ExceptError(self, o1, log1, sql, None)
     ELSE IF self.columns = None THEN Raise(self, "TypeError", log1, sql, None)
     ELSE IF o2 # "ok" THEN ExceptError(self, o2, log2, sql, stmt)
     ELSE IF o3 # "ok" THEN ExceptError(self, o3, log3, sql, stmt)
     ELSE Return(self, "True", log3, sql, stmt)

\* Insert that returns True after executemany, without the commit
Insert_NoCommit(self, data, f, log0, sql) ==
  LET o1 == IF self.connection = None THEN "AttributeError"
            ELSE Outcome(f, "dml_cursor")
      o2 == Outcome(f, "executemany")
      log1 == Append(log0, Event("cursor", o1))
      stmt == Some([statement |-> "INSERT INTO",
                    table |-> self.table_name[1],
                    columns |-> self.columns[1],
                    values |-> RowValues(self.columns[1], data)])
      log2 == Append(log1, Event("INSERT", o2))
  IN IF o1 # "ok" THEN ExceptError(self, o1, log1, sql, None)
     ELSE IF self.columns = None THEN Raise(self, "TypeError", log1, sql, None)
     ELSE IF o2 # "ok" THEN ExceptError(self, o2, log2, sql, stmt)
     ELSE Return(self, "True", log2, sql, stmt)

\* Insert that takes the columns from the first record of every batch
Insert_RelearnColumns(self0, data, f, log0, sql) ==
  LET self == IF Len(data) > 0
              THEN [self0 EXCEPT !.columns = Some(Keys(data[1]))] ELSE self0
      o1 == IF self.connection = None THEN "AttributeError"
            ELSE Outcome(f, "dml_cursor")
      o2 == Outcome(f, "executemany")
      o3 == Outcome(f, "dml_commit")
      log1 == Append(log0, Event("cursor", o1))
      stmt == Some([statement |-> "INSERT INTO",
                    table |-> self.table_name[1],
                    columns |-> self.columns[1],
                    values |-> RowValues(self.columns[1], data)])
      log2 == Append(log1, Event("INSERT", o2))
      log3 == Append(log2, Event("commit", o3))
  IN IF o1 # "ok" THEN ExceptError(self, o1, log1, sql, None)
     ELSE IF self.columns = None THEN Raise(self, "TypeError", log1, sql, None)
     ELSE IF o2 # "ok" THEN ExceptError(self, o2, log2, sql, stmt)
     ELSE IF o3 # "ok" THEN ExceptError(self, o3, log3, sql, stmt)
     ELSE Return(self, "True", log3, sql, stmt)

\* the try block of _write_to_mysql: the batch insert
Insert(self, data, f, log0, sql) ==
  LET o1 == IF self.connection = None THEN "AttributeError"
            ELSE Outcome(f, "dml_cursor")
      o2 == Outcome(f, "executemany")
      o3 == Outcome(f, "dml_commit")
      log1 == Append(log0, Event("cursor", o1))
      stmt == Some([statement |-> "INSERT INTO",
                    table |-> self.table_name[1],
                    columns |-> self.columns[1],
                    values |-> RowValues(self.columns[1], data)])
      log2 == Append(log1, Event("INSERT", o2))
      log3 == Append(log2, Event("commit", o3))
  IN IF o1 # "ok" THEN ExceptError(self, o1, log1, sql, None)
     ELSE IF self.columns = None THEN Raise(self, "TypeError", log1, sql, None)
     ELSE IF o2 # "ok" THEN ExceptError(self, o2, log2, sql, stmt)
     ELSE IF o3 # "ok" THEN ExceptError(self, o3, log3, sql, stmt)
     ELSE Return(self, "True", log3, sql, stmt)

\* WriteCreated that inserts whatever _create_table returned
WriteCreated_InsertAnyway(c, data, f) ==
  IF c.kind = "raise" THEN c
  ELSE Insert(c.self, data, f, c.log, c.create_table_sql)

\* WriteCreated that returns what _create_table returned, without inserting
WriteCreated_CreateOnly(c, data, f) ==
  IF c.kind = "raise" THEN c
  ELSE IF c.value # "True"
       THEN Return(c.self, "False", c.log, c.create_table_sql, None)
  ELSE Return(c.self, "True", c.log, c.create_table_sql, None)

\* _write_to_mysql from `if not self._create_table(data)` on, where
\* _create_table ended as c
WriteCreated(c, data, f) ==
  IF c.kind = "raise" THEN c
  ELSE IF c.value # "True"
       THEN Return(c.self, "False", c.log, c.create_table_sql, None)
  ELSE Insert(c.self, data, f, c.log, c.create_table_sql)

\* _write_to_mysql that dials again before every insert
WriteToMysql_Redial(self, data, f, t) ==
  IF self.table_name = None
  THEN WriteCreated(CreateTable(self, data, f, t), data, f)
  ELSE Insert(ConnectToMysql(self, f).self, data, f,
              ConnectToMysql(self, f).log, None)

\* _write_to_mysql without the test of self.table_name: every call creates
WriteToMysql_AlwaysCreate(self, data, f, t) ==
  WriteCreated(CreateTable(self, data, f, t), data, f)

\* MySQLSink._write_to_mysql, called at clock second t
WriteToMysql(self, data, f, t) ==
  IF self.table_name = None
  THEN WriteCreated(CreateTable(self, data, f, t), data, f)
  ELSE Insert(self, data, f, <<>>, None)

(***************************************************************************)
(* State.                                                                  *)
(***************************************************************************)
SinkIds == {1, 2}

VARIABLES
  sinks,        \* the MySQLSink objects that were constructed
  connection,   \* self.connection of each sink
  table_name,   \* self.table_name of each sink
  columns,      \* self.columns of each sink
  call,         \* the running or the last call of write of each sink
  created,      \* history: _create_table has returned True for the sink
  now,          \* int(time.time())
  sample_data,  \* the record handed to schema inference
  columns_sql,  \* the column definitions inferred from sample_data
  server,       \* the database server: its tables and open transactions
  app_variables,  \* the variables of the application, at the Quix API
  tool_call,    \* the calls of the variable tools of the MCP server
  loader,       \* load_config of the MCP server: its sources and its result
  enrich        \* the enrichment job: its counter, its thread, its output

vars ==
  <<sinks, connection, table_name, columns, call, created, now, sample_data,
    columns_sql, server, app_variables, tool_call, loader, enrich>>

Self(s) ==
  [connection |-> connection[s], table_name |-> table_name[s],
   columns |-> columns[s]]

NoBatch == [topic |-> "", partition |-> 0, items |-> <<>>]

\* The call of write of a sink: where it stands (pc), its batch,
\* attempts_remaining, the iterations made so far, each with how
\* _write_to_mysql ended, and the sleeps between them (trace), the
\* driver calls of the latest iteration (log) with the statements it
\* submitted, how the call ended (result, backpressure), and whether
\* _create_table had returned True before the call (created_before).
NoCall ==
  [pc |-> "none", batch |-> NoBatch, attempts_remaining |-> 0,
   trace |-> <<>>, log |-> <<>>, result |-> "", backpressure |-> None,
   create_table_sql |-> None, insert |-> None, created_before |-> FALSE]

(***************************************************************************)
(* The database server.  It holds the tables by name, each with its        *)
(* columns and its committed rows, and per sink the rows of the open       *)
(* transaction of its session.  The sink runs without autocommit: a row    *)
(* reaches the table at the commit of its session.  A driver call that     *)
(* raised ConnectionError or TimeoutError may have been executed by the    *)
(* server before the failure reached the client ("done"), may not have     *)
(* been ("not_done"), or may have cost the session its open transaction    *)
(* ("dropped"); a call that raised mysql.connector.Error was rejected.     *)
(* A server that is not tracked stands for any server.                     *)
(***************************************************************************)
TableNames == {TableName(t) : t \in 0..MaxTime}

NoServer ==
  [tracked |-> FALSE, tables |-> [n \in TableNames |-> None],
   pending |-> [s \in SinkIds |-> <<>>]]

EmptyServer == [NoServer EXCEPT !.tracked = TRUE]

ServerChoices == {"done", "not_done", "dropped"}

Unsure == {"ConnectionError", "TimeoutError"}

\* whether the server executed a driver call that ended as outcome
Done(outcome, srv) == outcome = "ok" \/ (outcome \in Unsure /\ srv = "done")

\* whether the server executed the statement op of the driver calls of log
Happened(log, op, srv) ==
  \E i \in DOMAIN log : log[i].op = op /\ Done(log[i].outcome, srv)

\* CREATE OR REPLACE TABLE: an existing table is replaced by an empty one
CreateIfNotExists_Replace(tables, sql) ==
  [tables EXCEPT
     ![sql.table] = Some([columns |-> sql.columns, rows |-> <<>>])]

\* CREATE TABLE IF NOT EXISTS: an existing table is left as it is
CreateIfNotExists(tables, sql) ==
  IF tables[sql.table] # None THEN tables
  ELSE [tables EXCEPT
          ![sql.table] = Some([columns |-> sql.columns, rows |-> <<>>])]

\* whether the server accepts an INSERT: its table exists and has every
\* column the statement names
Accepts(tables, stmt) ==
  /\ tables[stmt.table] # None
  /\ \A j \in DOMAIN stmt.columns :
       \E k \in DOMAIN tables[stmt.table][1].columns :
         tables[stmt.table][1].columns[k][1] = stmt.columns[j]

\* the rows of an INSERT statement, in order
StmtRows(stmt) ==
  [i \in DOMAIN stmt.values |->
     [table |-> stmt.table, columns |-> stmt.columns,
      values |-> stmt.values[i]]]

RECURSIVE CommitRows(_, _)
\* COMMIT: the rows of the open transaction reach their tables, in order
CommitRows(tables, rows) ==
  IF rows = <<>> THEN tables
  ELSE CommitRows(
         [tables EXCEPT ![rows[1].table] =
            Some([@[1] EXCEPT !.rows = Append(@, rows[1])])],
         Tail(rows))

\* the tables once the CREATE TABLE of the attempt that ended as r was seen
TablesCreated(srvr, r, srv) ==
  IF Happened(r.log, "CREATE TABLE", srv)
  THEN CreateIfNotExists(srvr.tables, r.create_table_sql[1])
  ELSE srvr.tables

\* the open transaction of sink s once the INSERT of the attempt was seen
Submitted(srvr, s, r, srv) ==
  IF Happened(r.log, "INSERT", srv)
  THEN srvr.pending[s] \o StmtRows(r.insert[1])
  ELSE srvr.pending[s]

\* the server after driver call e of sink s, made in the attempt that
\* ended as r: CREATE TABLE, INSERT, COMMIT and ROLLBACK act when the
\* server executed them; a call that failed in doubt may have cost the
\* session its open transaction
ServerCall(srvr, s, r, e, srv) ==
  IF ~Done(e.outcome, srv)
  THEN IF e.outcome \in Unsure /\ srv = "dropped"
       THEN [srvr EXCEPT !.pending[s] = <<>>]
       ELSE srvr
  ELSE CASE e.op = "CREATE TABLE" ->
              [srvr EXCEPT
                 !.tables = CreateIfNotExists(@, r.create_table_sql[1])]
         [] e.op = "INSERT" ->
              [srvr EXCEPT !.pending[s] = @ \o StmtRows(r.insert[1])]
         [] e.op = "commit" ->
              [srvr EXCEPT !.tables = CommitRows(@, srvr.pending[s]),
                           !.pending[s] = <<>>]
         [] e.op = "rollback" -> [srvr EXCEPT !.pending[s] = <<>>]
         [] OTHER -> srvr

RECURSIVE Serve(_, _, _, _, _)
\* the server after the driver calls r.log[i], r.log[i + 1], ... of sink s
Serve(srvr, s, r, i, srv) ==
  IF i > Len(r.log) THEN srvr
  ELSE Serve(ServerCall(srvr, s, r, r.log[i], srv), s, r, i + 1, srv)

\* the server after the driver calls of an attempt of sink s that ended as r
ServerAfter(srvr, s, r, srv) ==
  IF ~srvr.tracked THEN srvr ELSE Serve(srvr, s, r, 1, srv)

\* the number of rows of all tables of a server
RECURSIVE RowCount(_, _)
RowCount(tables, names) ==
  IF names = {} THEN 0
  ELSE LET n == CHOOSE x \in names : TRUE
       IN (IF tables[n] = None THEN 0 ELSE Len(tables[n][1].rows))
            + RowCount(tables, names \ {n})

\* whether the server can have answered the attempt that ended as r in the
\* way srv: it executes no INSERT into a table or a column that is missing,
\* only a call that ended in doubt is in doubt, and the rows stay within
\* the bound of the model
ServerAllows(srvr, s, r, srv) ==
  IF ~srvr.tracked THEN srv = "not_done"
  ELSE /\ srv # "not_done" =>
            r.log # <<>> /\ r.log[Len(r.log)].outcome \in Unsure
       /\ Happened(r.log, "INSERT", srv) =>
            Accepts(TablesCreated(srvr, r, srv), r.insert[1])
       /\ RowCount(srvr.tables, TableNames) + Len(Submitted(srvr, s, r, srv))
            <= MaxRows

(***************************************************************************)
(* The variable tools of the MCP server.  The Quix API holds the list of   *)
(* variables of the application; a tool call reads it with a GET and       *)
(* writes a whole list back with a PATCH, which replaces the list.  A      *)
(* variable is its name and its input type.  A tool call is [op, pc,       *)
(* name, variables, append, before, final, result]: the tool, where the    *)
(* call stands, its arguments, the list of the application when the call   *)
(* began, the list it sends, and what it returned.                         *)
(***************************************************************************)
Callers == {1, 2, 3}

ValidInputTypes ==
  {"Topic", "FreeText", "HiddenText", "InputTopic", "OutputTopic", "Secret"}

\* the input types the calls of the model pass: a valid one and another
InputTypes == {"FreeText", "Number"}

VarNames == {"a", "b", "v"}

Variable(name, input_type) == [name |-> name, inputType |-> input_type]

\* the names of a list of variables
NamesOf(list) == {list[i].name : i \in DOMAIN list}

\* final_variables of add_application_variable
AddFinal(existing_variables, new_variable) ==
  existing_variables \o <<new_variable>>

\* the existing variables whose name is not among the new ones
NotUpdated(existing_variables, variables) ==
  SelectSeq(existing_variables,
            LAMBDA var : var.name \notin NamesOf(variables))

\* UpdateFinal that keeps every existing variable when it appends
UpdateFinal_KeepAll(existing_variables, variables, append) ==
  IF append THEN existing_variables \o variables ELSE variables

\* final_variables of update_application_variables
UpdateFinal(existing_variables, variables, append) ==
  IF append THEN NotUpdated(existing_variables, variables) \o variables
  ELSE variables

IdleCall ==
  [op |-> "", pc |-> "idle", name |-> "", variables |-> <<>>,
   append |-> TRUE, before |-> <<>>, final |-> <<>>, result |-> ""]

InitTools ==
  /\ app_variables = <<>>
  /\ tool_call = [c \in Callers |-> IdleCall]

(***************************************************************************)
(* load_config of the MCP server.  A string is its text and the number of  *)
(* slashes that end it; a source gives a key a string or nothing.  The     *)
(* sources are the process environment, the file .env when it exists, and  *)
(* the command line.                                                       *)
(***************************************************************************)
Str(text, slashes) == [text |-> text, slashes |-> slashes]

\* str.rstrip('/')
RStrip(str) == [str EXCEPT !.slashes = 0]

\* `not value` of a string or None
Falsy(value) == value = None \/ value[1].text = ""

QuixKeys == {"quix_token", "quix_base_url", "quix_workspace"}

DEFAULT_CONFIG ==
  [host |-> Some(Str("0.0.0.0", 0)),
   port |-> Some(Str("8000", 0)),
   debug |-> Some(Str("False", 0)),
   quix_token |-> None,
   quix_base_url |-> Some(Str("https://portal.platform.quix.io", 0)),
   quix_workspace |-> None]

\* dotenv.load_dotenv(env_path): a variable the process environment has
\* already is left as it is
LoadDotenv(environ, dotenv) ==
  IF dotenv = None THEN environ
  ELSE [k \in QuixKeys |->
          IF environ[k] # None THEN environ[k] ELSE dotenv[1][k]]

\* config[k] = os.environ.get(K, config[k]) for the three Quix keys
FromEnviron(config, environ) ==
  [k \in DOMAIN config |->
     IF k \in QuixKeys /\ environ[k] # None THEN environ[k] ELSE config[k]]

\* the command-line arguments that were given; --debug only when it is
\* true, --quix-base-url without the slashes that end it
FromArgs(config, args) ==
  [k \in DOMAIN config |->
     CASE args[k] = None -> config[k]
       [] k = "debug" /\ args[k] # Some(Str("True", 0)) -> config[k]
       [] k = "quix_base_url" -> Some(RStrip(args[k][1]))
       [] OTHER -> args[k]]

\* load_config: the configuration it returns, or the ValueError it raises
LoadConfig(environ, dotenv, args) ==
  LET config ==
        FromArgs(FromEnviron(DEFAULT_CONFIG, LoadDotenv(environ, dotenv)),
                 args)
  IN IF Falsy(config.quix_token) \/ Falsy(config.quix_workspace)
     THEN [kind |-> "raise", value |-> "ValueError", config |-> config]
     ELSE [kind |-> "return", value |-> "config", config |-> config]

NoLoad ==
  [pc |-> "none", environ |-> [k \in QuixKeys |-> None],
   os_environ |-> [k \in QuixKeys |-> None], dotenv |-> None,
   args |-> [k \in DOMAIN DEFAULT_CONFIG |-> None], result |-> None]

(***************************************************************************)
(* The enrichment job: the global current_config_id, the thread that       *)
(* counts it up, and the config_id of the messages sent so far.            *)
(***************************************************************************)
\* the greatest config id: `if current_config_id > 10`
MaxConfigId == 10

NoEnrich == [current_config_id |-> 1, pc |-> "none", config_ids |-> <<>>]

InitJobs ==
  /\ loader = NoLoad
  /\ enrich = NoEnrich

InitSink ==
  /\ connection = [s \in SinkIds |-> NewSink.connection]
  /\ table_name = [s \in SinkIds |-> NewSink.table_name]
  /\ columns = [s \in SinkIds |-> NewSink.columns]
  /\ call = [s \in SinkIds |-> NoCall]
  /\ created = [s \in SinkIds |-> FALSE]
  /\ now = 0

\* one sink, as main() constructs it
Init ==
  /\ sinks = {1}
  /\ InitSink
  /\ InitJobs
  /\ sample_data = <<>>
  /\ columns_sql = None
  /\ server = NoServer
  /\ InitTools

\* write(batch) up to the loop: attempts_remaining = 3, data = the values
WriteCall(s, batch) ==
  /\ call[s].pc # "loop"
  /\ call' = [call EXCEPT ![s] =
       [NoCall EXCEPT !.pc = "loop", !.batch = batch,
                      !.attempts_remaining = MaxAttempts,
                      !.created_before = created[s]]]
  /\ UNCHANGED <<sinks, connection, table_name, columns, created, now,
                 sample_data, columns_sql, server, app_variables, tool_call,
                 loader, enrich>>

\* AfterAttempt with TimeoutError handled by the clause of ConnectionError
AfterAttempt_RetryTimeout(c, r) ==
  LET trace == Append(c.trace, Event("attempt", r.value))
      seen == [c EXCEPT !.trace = trace, !.log = r.log,
                        !.create_table_sql = r.create_table_sql,
                        !.insert = r.insert]
  IN CASE r.kind = "return" ->
            [seen EXCEPT !.pc = "returned", !.result = r.value]
       [] r.kind = "raise" /\ r.value \in {"ConnectionError", "TimeoutError"} ->
            IF c.attempts_remaining - 1 # 0
            THEN [seen EXCEPT !.attempts_remaining = @ - 1,
                              !.trace = Append(trace, Event("sleep", "ok"))]
            ELSE [seen EXCEPT !.attempts_remaining = @ - 1,
                              !.pc = "raised", !.result = "Exception"]
       [] OTHER -> [seen EXCEPT !.pc = "raised", !.result = r.value]

\* AfterAttempt that returns False once the attempts are used up
AfterAttempt_SilentExhaust(c, r) ==
  LET trace == Append(c.trace, Event("attempt", r.value))
      seen == [c EXCEPT !.trace = trace, !.log = r.log,
                        !.create_table_sql = r.create_table_sql,
                        !.insert = r.insert]
  IN CASE r.kind = "return" ->
            [seen EXCEPT !.pc = "returned", !.result = r.value]
       [] r.kind = "raise" /\ r.value = "ConnectionError" ->
            IF c.attempts_remaining - 1 # 0
            THEN [seen EXCEPT !.attempts_remaining = @ - 1,
                              !.trace = Append(trace, Event("sleep", "ok"))]
            ELSE [seen EXCEPT !.attempts_remaining = @ - 1,
                              !.pc = "returned", !.result = "False"]
       [] r.kind = "raise" /\ r.value = "TimeoutError" ->
            [seen EXCEPT !.pc = "raised",
                         !.result = "SinkBackpressureError",
                         !.backpressure =
                            Some([retry_after |-> RetryAfter,
                                  topic |-> c.batch.topic,
                                  partition |-> c.batch.partition])]
       [] OTHER -> [seen EXCEPT !.pc = "raised", !.result = r.value]

\* AfterAttempt that sleeps and tries again after a ConnectionError without
\* counting the attempt
AfterAttempt_KeepCounter(c, r) ==
  LET trace == Append(c.trace, Event("attempt", r.value))
      seen == [c EXCEPT !.trace = trace, !.log = r.log,
                        !.create_table_sql = r.create_table_sql,
                        !.insert = r.insert]
  IN CASE r.kind = "return" ->
            [seen EXCEPT !.pc = "returned", !.result = r.value]
       [] r.kind = "raise" /\ r.value = "ConnectionError" ->
            [seen EXCEPT !.trace = Append(trace, Event("sleep", "ok"))]
       [] r.kind = "raise" /\ r.value = "TimeoutError" ->
            [seen EXCEPT !.pc = "raised",
                         !.result = "SinkBackpressureError",
                         !.backpressure =
                            Some([retry_after |-> RetryAfter,
                                  topic |-> c.batch.topic,
                                  partition |-> c.batch.partition])]
       [] OTHER -> [seen EXCEPT !.pc = "raised", !.result = r.value]

\* AfterAttempt that handles every exception of the attempt as it handles
\* ConnectionError
AfterAttempt_RetryAll(c, r) ==
  LET trace == Append(c.trace, Event("attempt", r.value))
      seen == [c EXCEPT !.trace = trace, !.log = r.log,
                        !.create_table_sql = r.create_table_sql,
                        !.insert = r.insert]
  IN CASE r.kind = "return" ->
            [seen EXCEPT !.pc = "returned", !.result = r.value]
       [] r.kind = "raise" /\ r.value = "TimeoutError" ->
            [seen EXCEPT !.pc = "raised",
                         !.result = "SinkBackpressureError",
                         !.backpressure =
                            Some([retry_after |-> RetryAfter,
                                  topic |-> c.batch.topic,
                                  partition |-> c.batch.partition])]
       [] OTHER ->
            IF c.attempts_remaining - 1 # 0
            THEN [seen EXCEPT !.attempts_remaining = @ - 1,
                              !.trace = Append(trace, Event("sleep", "ok"))]
            ELSE [seen EXCEPT !.attempts_remaining = @ - 1,
                              !.pc = "raised", !.result = "Exception"]

\* the state of the call after one iteration of `while attempts_remaining`
\* in which _write_to_mysql ended as r
AfterAttempt(c, r) ==
  LET trace == Append(c.trace, Event("attempt", r.value))
      seen == [c EXCEPT !.trace = trace, !.log = r.log,
                        !.create_table_sql = r.create_table_sql,
                        !.insert = r.insert]
  IN CASE r.kind = "return" ->
            [seen EXCEPT !.pc = "returned", !.result = r.value]
       [] r.kind = "raise" /\ r.value = "ConnectionError" ->
            IF c.attempts_remaining - 1 # 0
            THEN [seen EXCEPT !.attempts_remaining = @ - 1,
                              !.trace = Append(trace, Event("sleep", "ok"))]
            ELSE [seen EXCEPT !.attempts_remaining = @ - 1,
                              !.pc = "raised", !.result = "Exception"]
       [] r.kind = "raise" /\ r.value = "TimeoutError" ->
            [seen EXCEPT !.pc = "raised",
                         !.result = "SinkBackpressureError",
                         !.backpressure =
                            Some([retry_after |-> RetryAfter,
                                  topic |-> c.batch.topic,
                                  partition |-> c.batch.partition])]
       [] OTHER -> [seen EXCEPT !.pc = "raised", !.result = r.value]

\* whether the iteration sleeps: a ConnectionError with attempts left
Sleeps(c, r) ==
  r.kind = "raise" /\ r.value = "ConnectionError" /\ c.attempts_remaining - 1 # 0

\* whether _create_table returned True in the driver calls of log
CreateTableReturnedTrue(log) ==
  \E i \in 1..(Len(log) - 1) :
    log[i] = Event("CREATE TABLE", "ok") /\ log[i + 1] = Event("commit", "ok")

\* the end of one iteration of the loop of write in which _write_to_mysql
\* ended as r: the fields it set, the except clauses, the sleep
AttemptEnds(s, r) ==
  /\ connection' = [connection EXCEPT ![s] = r.self.connection]
  /\ table_name' = [table_name EXCEPT ![s] = r.self.table_name]
  /\ columns' = [columns EXCEPT ![s] = r.self.columns]
  /\ call' = [call EXCEPT ![s] = AfterAttempt(call[s], r)]
  /\ created' = [created EXCEPT ![s] = @ \/ CreateTableReturnedTrue(r.log)]
  /\ IF Sleeps(call[s], r)
     THEN now + SleepSeconds <= MaxTime /\ now' = now + SleepSeconds
     ELSE now' = now

\* one iteration of the loop of write: the call of _write_to_mysql under
\* fault f, the except clauses, and `raise Exception` once the loop is left
\* what the driver calls of the attempt that ended as r did to the server
ServerSees(s, r, srv) ==
  /\ ServerAllows(server, s, r, srv)
  /\ server' = ServerAfter(server, s, r, srv)

WriteAttempt(s, f, srv) ==
  /\ call[s].pc = "loop"
  /\ AttemptEnds(s, WriteToMysql(Self(s), call[s].batch.items, f, now))
  /\ ServerSees(s, WriteToMysql(Self(s), call[s].batch.items, f, now), srv)
  /\ UNCHANGED <<sinks, sample_data, columns_sql, app_variables, tool_call,
                 loader, enrich>>

\* a second passes
Tick ==
  /\ now < MaxTime
  /\ now' = now + 1
  /\ UNCHANGED <<sinks, connection, table_name, columns, call, created,
                 sample_data, columns_sql, server, app_variables, tool_call,
                 loader, enrich>>

Next ==
  \/ \E s \in sinks, batch \in Batches : WriteCall(s, batch)
  \/ \E s \in sinks, f \in Faults, srv \in ServerChoices :
       WriteAttempt(s, f, srv)
  \/ Tick

Spec == Init /\ [][Next]_vars

(***************************************************************************)
(* Schema inference alone: any sample record, handed to the inference of   *)
(* _create_table.                                                          *)
(***************************************************************************)
SampleRecords == Dicts(ColNames, Values, MaxCols)

InitInfer ==
  /\ sinks = {}
  /\ InitSink
  /\ InitJobs
  /\ sample_data \in SampleRecords
  /\ columns_sql = None
  /\ server = NoServer
  /\ InitTools

\* sample_data = data[0]; self.columns = list(sample_data.keys()); the loop
\* that fills columns_sql
InferSchema ==
  /\ columns_sql = None
  /\ columns_sql' = Some(ColumnsSql(Keys(sample_data), sample_data))
  /\ UNCHANGED <<sinks, connection, table_name, columns, call, created, now,
                 sample_data, server, app_variables, tool_call,
                 loader, enrich>>

NextInfer == InferSchema

SpecInfer == InitInfer /\ [][NextInfer]_vars

(***************************************************************************)
(* One sink against a server whose tables and transactions are tracked.    *)
(***************************************************************************)
InitDb ==
  /\ sinks = {1}
  /\ InitSink
  /\ InitJobs
  /\ sample_data = <<>>
  /\ columns_sql = None
  /\ server = EmptyServer
  /\ InitTools

\* the batches of one partition: the server does not see the partition
DbBatches == {b \in Batches : b.partition = 0}

\* the clock moves with the sleeps of write only
NextDb ==
  \/ \E s \in sinks, batch \in DbBatches : WriteCall(s, batch)
  \/ \E s \in sinks, f \in Faults, srv \in ServerChoices :
       WriteAttempt(s, f, srv)

SpecDb == InitDb /\ [][NextDb]_vars

(***************************************************************************)
(* Two sinks, each in a process of its own, against one tracked server.    *)
(* An attempt of one sink is one step: the server executes each statement  *)
(* atomically, and the sinks share nothing but the server.                 *)
(***************************************************************************)
InitTwo ==
  /\ sinks = {1, 2}
  /\ InitSink
  /\ InitJobs
  /\ sample_data = <<>>
  /\ columns_sql = None
  /\ server = EmptyServer
  /\ InitTools

\* batches of one record
TwoBatches == {b \in DbBatches : Len(b.items) = 1}

\* the faults of the race: none, a dial that fails and is retried three
\* seconds later, and an INSERT that the server rejects
TwoFaults ==
  {NoFault,
   [at |-> "connect", kind |-> "ConnectionError"],
   [at |-> "executemany", kind |-> "Error"]}

NextTwo ==
  \/ \E s \in sinks, batch \in TwoBatches : WriteCall(s, batch)
  \/ \E s \in sinks, f \in TwoFaults, srv \in ServerChoices :
       WriteAttempt(s, f, srv)

SpecTwo == InitTwo /\ [][NextTwo]_vars

(***************************************************************************)
(* Calls of add_application_variable and update_application_variables on   *)
(* one application.  The awaits of a call are its GET and its PATCH;       *)
(* the calls of other clients run between them.                            *)
(***************************************************************************)
\* the lists of variables an application starts with
StartLists == {<<>>, <<Variable("v", "FreeText")>>}

InitVars ==
  /\ sinks = {}
  /\ InitSink
  /\ InitJobs
  /\ sample_data = <<>>
  /\ columns_sql = None
  /\ server = NoServer
  /\ app_variables \in StartLists
  /\ tool_call = [c \in Callers |-> IdleCall]

\* the lists of variables passed to update_application_variables
UpdateLists ==
  SeqsUpTo({Variable("v", "Secret"), Variable("b", "FreeText"),
            Variable("b", "Number")}, MaxVars)

\* what the Quix API answers: a body, an empty body, an error
Responses == {"ok", "empty", "error"}

\* the calls are numbered in the order in which they begin
Begins(c) ==
  /\ tool_call[c].pc = "idle"
  /\ \A d \in Callers : d < c => tool_call[d].pc # "idle"

ToolStep(c, next) ==
  /\ tool_call' = [tool_call EXCEPT ![c] = next]
  /\ UNCHANGED <<sinks, connection, table_name, columns, call, created, now,
                 sample_data, columns_sql, server, loader, enrich>>

\* a call that returned: of its record the tool, append and the result
\* are kept
Returned(t, result) ==
  [IdleCall EXCEPT !.op = t.op, !.append = t.append, !.pc = "done",
                   !.result = result]

\* add_application_variable up to its GET: the test of input_type
CallAddApplicationVariable(c, name, input_type) ==
  /\ Begins(c)
  /\ ToolStep(c,
       IF input_type \notin ValidInputTypes
       THEN Returned([IdleCall EXCEPT !.op = "add"],
                     "Error: Invalid input_type")
       ELSE [IdleCall EXCEPT !.op = "add", !.pc = "GET", !.name = name,
                             !.variables = <<Variable(name, input_type)>>,
                             !.before = app_variables])
  /\ UNCHANGED app_variables

\* update_application_variables up to its GET: the test of the variables
CallUpdateApplicationVariables(c, variables, append) ==
  /\ Begins(c)
  /\ ToolStep(c,
       IF \E i \in DOMAIN variables :
            variables[i].inputType \notin ValidInputTypes
       THEN Returned([IdleCall EXCEPT !.op = "update", !.append = append],
                     "Error: Invalid 'inputType' value")
       ELSE [IdleCall EXCEPT !.op = "update", !.pc = "GET",
                             !.variables = variables, !.append = append,
                             !.before = app_variables])
  /\ UNCHANGED app_variables

\* the call after the answer to its GET, which read existing_variables
AfterGet(t, existing_variables, response) ==
  CASE response = "error" -> Returned(t, "Error: QuixApiError")
    [] response = "empty" -> Returned(t, "No application found")
    [] t.op = "add" /\ t.name \in NamesOf(existing_variables) ->
         Returned(t, "Error: already exists")
    [] t.op = "add" ->
         [t EXCEPT !.pc = "PATCH",
                   !.final = AddFinal(existing_variables, t.variables[1])]
    [] OTHER ->
         [t EXCEPT !.pc = "PATCH",
                   !.final =
                      UpdateFinal(existing_variables, t.variables, t.append)]

\* the GET of a call is answered
GetApplication(c, response) ==
  /\ tool_call[c].pc = "GET"
  /\ ToolStep(c, AfterGet(tool_call[c], app_variables, response))
  /\ UNCHANGED app_variables

\* what the call returns after the answer to its PATCH
AfterPatch(t, response) ==
  CASE response = "error" -> Returned(t, "Error: QuixApiError")
    [] response = "empty" -> Returned(t, "Failed to update variables")
    [] OTHER -> Returned(t, "Successfully")

\* the PATCH of a call is answered: unless the API refused it, the list of
\* the application is now the list of the payload
PatchApplication(c, response) ==
  /\ tool_call[c].pc = "PATCH"
  /\ ToolStep(c, AfterPatch(tool_call[c], response))
  /\ app_variables' =
       IF response = "error" THEN app_variables ELSE tool_call[c].final

NextVars ==
  \/ \E c \in Callers, name \in VarNames, input_type \in InputTypes :
       CallAddApplicationVariable(c, name, input_type)
  \/ \E c \in Callers, variables \in UpdateLists, append \in BOOLEAN :
       CallUpdateApplicationVariables(c, variables, append)
  \/ \E c \in Callers, response \in Responses : GetApplication(c, response)
  \/ \E c \in Callers, response \in Responses : PatchApplication(c, response)

SpecVars == InitVars /\ [][NextVars]_vars

(***************************************************************************)
(* One run of load_config, over the sources it can find.                   *)
(***************************************************************************)
\* what each source can give a Quix key
EnvValues == {None, Some(Str("env", 0))}

FileValues == {None, Some(Str("file", 0))}

ArgValues == {None, Some(Str("cli", 0)), Some(Str("cli", 1))}

\* --host, --port and --debug, when they are given
ServerArgs ==
  [host |-> Some(Str("127.0.0.1", 0)), port |-> Some(Str("9000", 0)),
   debug |-> Some(Str("True", 0))]

\* the command lines: the Quix arguments, and the server arguments either
\* all given or none
CommandLines ==
  {[k \in DOMAIN DEFAULT_CONFIG |->
      IF k \in QuixKeys THEN q[k] ELSE IF given THEN ServerArgs[k] ELSE None] :
     q \in [QuixKeys -> ArgValues], given \in BOOLEAN}

InitConfig ==
  /\ sinks = {}
  /\ InitSink
  /\ sample_data = <<>>
  /\ columns_sql = None
  /\ server = NoServer
  /\ InitTools
  /\ enrich = NoEnrich
  /\ loader \in
       {[NoLoad EXCEPT !.environ = e, !.os_environ = e, !.dotenv = d, !.args = a] :
          e \in [QuixKeys -> EnvValues],
          d \in {None} \cup {Some(f) : f \in [QuixKeys -> FileValues]},
          a \in CommandLines}

\* load_config runs: load_dotenv changes os.environ; environ keeps the
\* environment the process was started with
LoadConfigRuns ==
  /\ loader.pc = "none"
  /\ loader' =
       [loader EXCEPT
          !.pc = "done",
          !.os_environ = LoadDotenv(loader.os_environ, loader.dotenv),
          !.result =
             Some(LoadConfig(loader.os_environ, loader.dotenv, loader.args))]
  /\ UNCHANGED <<sinks, connection, table_name, columns, call, created, now,
                 sample_data, columns_sql, server, app_variables, tool_call,
                 enrich>>

NextConfig == LoadConfigRuns

SpecConfig == InitConfig /\ [][NextConfig]_vars

(***************************************************************************)
(* The enrichment job: the thread increment_config_id runs beside the      *)
(* stream processing of the main thread, which reads current_config_id for *)
(* every message it sends.  Nothing orders the steps of the two threads.   *)
(***************************************************************************)
\* the number of messages the job sends
MaxMessages == 2

\* main: config_thread.start(), then app.run()
InitEnrich ==
  /\ sinks = {}
  /\ InitSink
  /\ sample_data = <<>>
  /\ columns_sql = None
  /\ server = NoServer
  /\ InitTools
  /\ loader = NoLoad
  /\ enrich = [NoEnrich EXCEPT !.pc = "sleep"]

EnrichStep(next) ==
  /\ enrich' = next
  /\ UNCHANGED <<sinks, connection, table_name, columns, call, created, now,
                 sample_data, columns_sql, server, app_variables, tool_call,
                 loader>>

\* time.sleep(5) ends; current_config_id += 1
Increment ==
  /\ enrich.pc = "sleep"
  /\ EnrichStep([enrich EXCEPT !.current_config_id = @ + 1, !.pc = "test"])

\* if current_config_id > 10: current_config_id = 1; print; the next sleep
TestAndReset ==
  /\ enrich.pc = "test"
  /\ EnrichStep([enrich EXCEPT
                   !.current_config_id = IF @ > MaxConfigId THEN 1 ELSE @,
                   !.pc = "sleep"])

\* the lambda of sdf.apply on one row: "config_id": current_config_id
ProcessMessage ==
  /\ Len(enrich.config_ids) < MaxMessages
  /\ EnrichStep([enrich EXCEPT
                   !.config_ids = Append(@, enrich.current_config_id)])

NextEnrich == Increment \/ TestAndReset \/ ProcessMessage

SpecEnrich == InitEnrich /\ [][NextEnrich]_vars

(***************************************************************************)
(* Properties of write: retry, backpressure and failure signalling.        *)
(***************************************************************************)
AttemptEnded(outcome) == Event("attempt", outcome)

Slept == Event("sleep", "ok")

\* C1: if _write_to_mysql raises TimeoutError on any attempt, that attempt
\* is the last event of the call (no further attempt, no sleep) and the call
\* raises SinkBackpressureError with retry_after 30 and the topic and the
\* partition of its batch.
C1_TimeoutGivesBackpressure ==
  \A s \in sinks :
    LET c == call[s]
    IN (\E i \in DOMAIN c.trace : c.trace[i] = AttemptEnded("TimeoutError")) =>
         /\ c.trace[Len(c.trace)] = AttemptEnded("TimeoutError")
         /\ c.pc = "raised"
         /\ c.result = "SinkBackpressureError"
         /\ c.backpressure =
              <<[retry_after |-> 30, topic |-> c.batch.topic,
                 partition |-> c.batch.partition]>>

\* a timeout on the third attempt, after two ConnectionErrors, of a batch of
\* partition 1
C1_Witness ==
  \E s \in sinks :
    /\ call[s].result = "SinkBackpressureError"
    /\ call[s].trace =
         <<AttemptEnded("ConnectionError"), Slept,
           AttemptEnded("ConnectionError"), Slept,
           AttemptEnded("TimeoutError")>>
    /\ call[s].batch.partition = 1

\* C2: a call all of whose attempts raise ConnectionError never returns; it
\* ends after exactly 3 attempts with a sleep between consecutive attempts
\* and none after the last, by raising the generic Exception.
C2_RetryExhaustion ==
  \A s \in sinks :
    LET c == call[s]
        allConnectionErrors ==
          \A i \in DOMAIN c.trace :
            c.trace[i].op = "attempt" => c.trace[i].outcome = "ConnectionError"
    IN (c.trace # <<>> /\ allConnectionErrors) =>
         /\ c.pc # "returned"
         /\ c.pc = "loop" =>
              c.trace \in
                {<<AttemptEnded("ConnectionError"), Slept>>,
                 <<AttemptEnded("ConnectionError"), Slept,
                   AttemptEnded("ConnectionError"), Slept>>}
         /\ c.pc = "raised" =>
              /\ c.result = "Exception"
              /\ c.trace =
                   <<AttemptEnded("ConnectionError"), Slept,
                     AttemptEnded("ConnectionError"), Slept,
                     AttemptEnded("ConnectionError")>>

\* three ConnectionErrors in a row ended the call
C2_Witness ==
  \E s \in sinks :
    /\ call[s].pc = "raised"
    /\ call[s].result = "Exception"
    /\ Len(call[s].trace) = 5

\* C3: a call of write with a batch of records that returns normally has
\* committed its batch: its last attempt submitted the INSERT and ended with
\* a successful commit.
C3_FailedWriteRaises ==
  \A s \in sinks :
    LET c == call[s]
    IN (c.pc = "returned" /\ c.batch.items # <<>>) =>
         /\ c.insert # None
         /\ c.log # <<>>
         /\ c.log[Len(c.log)] = Event("commit", "ok")

(***************************************************************************)
(* Properties of the schema lock.                                          *)
(***************************************************************************)
\* C4: the sink leaves UNINITIALIZED (table_name is set) only when
\* _create_table has succeeded.
C4_UninitializedUntilCreated ==
  \A s \in sinks : table_name[s] # None => created[s]

\* C5: a call of write made after _create_table has returned True performs
\* no schema inference and submits no CREATE TABLE, in any of its attempts.
C5_NoSecondCreation ==
  \A s \in sinks :
    LET c == call[s]
    IN c.created_before =>
         /\ c.create_table_sql = None
         /\ \A i \in DOMAIN c.log : c.log[i].op \notin {"infer", "CREATE TABLE"}

\* a later write of a batch of another shape succeeded on a created table
C5_Witness ==
  \E s \in sinks :
    /\ call[s].created_before
    /\ call[s].pc = "returned"
    /\ call[s].result = "True"
    /\ call[s].batch.items # <<>>
    /\ Keys(call[s].batch.items[1]) # columns[s][1]

\* C6: once table_name is set (which every successful creation does), no
\* step changes the table name or the column list of the sink.
C6_LockedSchemaNeverChanges ==
  [][\A s \in sinks :
       table_name[s] # None =>
         /\ table_name'[s] = table_name[s]
         /\ columns'[s] = columns[s]]_vars

\* on a created table, at a later second, a batch of another shape was
\* retried and ended in backpressure
C6_Witness ==
  \E s \in sinks :
    /\ call[s].created_before
    /\ call[s].result = "SinkBackpressureError"
    /\ Len(call[s].trace) > 1
    /\ call[s].batch.items # <<>>
    /\ Keys(call[s].batch.items[1]) # columns[s][1]
    /\ table_name[s] # Some(TableName(now))

(***************************************************************************)
(* Properties of schema inference.                                         *)
(***************************************************************************)
\* C7: a column whose sampled value is a boolean gets the type BOOLEAN.
C7_BooleanColumn ==
  columns_sql # None =>
    \A i \in 1..Len(sample_data) :
      sample_data[i][2].type = "bool" => columns_sql[1][i][2] = "BOOLEAN"

\* C8: the columns of a submitted CREATE TABLE are the keys of the first
\* record of the batch in their order, then the one column id, which is
\* the only AUTO_INCREMENT PRIMARY KEY column.
C8_CreateTableColumns ==
  \A s \in sinks :
    LET c == call[s]
    IN c.create_table_sql # None =>
         LET cols == c.create_table_sql[1].columns
             first == c.batch.items[1]
         IN /\ Len(cols) = Len(first) + 1
            /\ \A i \in 1..Len(first) :
                 /\ cols[i][1] = first[i][1]
                 /\ cols[i][2] # "INT AUTO_INCREMENT PRIMARY KEY"
            /\ cols[Len(cols)] = <<"id", "INT AUTO_INCREMENT PRIMARY KEY">>

\* a table was created from a batch whose second record has other keys
C8_Witness ==
  \E s \in sinks :
    /\ call[s].create_table_sql # None
    /\ call[s].result = "True"
    /\ call[s].batch.items = <<RecA, RecB>>

\* the column names of the model that contain time, date or timestamp
TimeNamed == {"uptime", "EventDate", "TIMESTAMP"}

\* the strings of the model that strptime parses in '%Y-%m-%d %H:%M:%S.%f'
Parsing == {"2024-01-01 00:00:00.000000", "2024-1-1 0:0:0.5"}

\* C9: a sampled value that is no boolean gets its type by the first rule
\* that matches: None, int, float, a string that parses in a column named
\* like a time, any other string, any other type.
C9_TypeMapping ==
  columns_sql # None =>
    \A i \in 1..Len(sample_data) :
      LET col == sample_data[i][1]
          value == sample_data[i][2]
      IN value.type # "bool" =>
           columns_sql[1][i] =
             <<col,
               CASE value.type = "NoneType" -> "VARCHAR(255) NULL"
                 [] value.type = "int" -> "INT"
                 [] value.type = "float" -> "FLOAT"
                 [] value.type = "str" /\ col \in TimeNamed
                      /\ value.repr \in Parsing -> "TIMESTAMP"
                 [] OTHER -> "VARCHAR(255)">>

\* a record with a TIMESTAMP column and a parsing string in a column that
\* is not named like a time
C9_Witness ==
  /\ columns_sql # None
  /\ \E i, j \in 1..Len(sample_data) :
       /\ columns_sql[1][i][2] = "TIMESTAMP"
       /\ sample_data[j][1] \notin TimeNamed
       /\ sample_data[j][2].type = "str"
       /\ sample_data[j][2].repr \in Parsing

\* C10: inference gives every column a type, and a string that does not
\* parse, in a column named like a time, gets VARCHAR(255).
C10_UnparsableStaysVarchar ==
  columns_sql # None =>
    /\ Len(columns_sql[1]) = Len(sample_data)
    /\ \A i \in 1..Len(sample_data) :
         LET col == sample_data[i][1]
             value == sample_data[i][2]
         IN (value.type = "str" /\ col \in TimeNamed
               /\ value.repr \notin Parsing) =>
              columns_sql[1][i][2] = "VARCHAR(255)"

\* a date that matches the format but does not exist, in the column EventDate
C10_Witness ==
  /\ columns_sql # None
  /\ \E i \in 1..Len(sample_data) :
       /\ sample_data[i][1] = "EventDate"
       /\ sample_data[i][2] = Py("str", "2023-02-29 10:00:00.0")
       /\ columns_sql[1][i][2] = "VARCHAR(255)"

(***************************************************************************)
(* Properties of the batch insert.                                         *)
(***************************************************************************)
\* whether record has the key col
HasKey(record, col) == \E i \in 1..Len(record) : record[i][1] = col

\* the latest attempt of call c began with the table name set: it made no
\* creation attempt
LockedAttempt(c) == c.log # <<>> /\ c.log[1].op # "connect"

\* C11: an attempt on a locked schema submits one row per record of the
\* batch over the locked columns; a column the record lacks is null, every
\* other value is the record's own, and when no driver call fails the write
\* returns True.
C11_MissingColumnIsNull ==
  \A s \in sinks :
    LET c == call[s]
    IN (LockedAttempt(c) /\ c.insert # None) =>
         LET stmt == c.insert[1]
             items == c.batch.items
         IN /\ stmt.columns = columns[s][1]
            /\ Len(stmt.values) = Len(items)
            /\ \A i \in 1..Len(items) :
                 /\ Len(stmt.values[i]) = Len(stmt.columns)
                 /\ \A j \in 1..Len(stmt.columns) :
                      stmt.values[i][j] =
                        IF HasKey(items[i], stmt.columns[j])
                        THEN Item(items[i], stmt.columns[j]) ELSE PyNone
            /\ (\A k \in DOMAIN c.log : c.log[k].outcome = "ok") =>
                 c.pc = "returned" /\ c.result = "True"

\* on a table locked with the columns speed and ts, a batch whose first
\* record has neither column and whose second has both was written
C11_Witness ==
  \E s \in sinks :
    /\ call[s].created_before
    /\ call[s].pc = "returned"
    /\ call[s].result = "True"
    /\ columns[s] = Some(<<"speed", "ts">>)
    /\ call[s].batch.items = <<RecB, RecA>>
    /\ call[s].insert[1].values =
         << <<PyNone, PyNone>>,
            <<Py("float", "12.5"), Py("str", "2024-01-01 00:00:00.000000")>> >>

(***************************************************************************)
(* Properties of the rows that reach the table.                            *)
(***************************************************************************)
\* the number of attempts call c has made
Attempts(c) ==
  Cardinality({i \in DOMAIN c.trace : c.trace[i].op = "attempt"})

\* the committed rows of the table of sink s, as tuples of values
TableRows(s) ==
  LET rows == server.tables[table_name[s][1]][1].rows
  IN [i \in DOMAIN rows |-> rows[i].values]

\* the rows of the batch of call c over the columns of sink s
BatchRows(s, c) == RowValues(columns[s][1], c.batch.items)

\* the call of sink s is the one in which _create_table returned True, and
\* it returned True
FirstWriteSucceeded(s) ==
  /\ ~call[s].created_before
  /\ created[s]
  /\ call[s].pc = "returned"
  /\ call[s].result = "True"

\* C12: after the write that created the table has returned True, the table
\* holds exactly one row per record of its batch, in order.
C12_FirstWriteInsertsBatch ==
  \A s \in sinks :
    FirstWriteSucceeded(s) =>
      /\ server.tables[table_name[s][1]] # None
      /\ TableRows(s) = BatchRows(s, call[s])

\* C12, amended: after the write that created the table has returned True,
\* the table holds the rows of its batch, in order, once for the last
\* attempt and at most once more for every attempt before it; it holds
\* them exactly once when the call made one attempt.
C12_FirstWriteInsertsBatchPerAttempt ==
  \A s \in sinks :
    FirstWriteSucceeded(s) =>
      LET batch == BatchRows(s, call[s])
          n == Len(batch)
      IN /\ server.tables[table_name[s][1]] # None
         /\ n > 0
         /\ \E k \in 1..Attempts(call[s]) : Len(TableRows(s)) = k * n
         /\ \A i \in DOMAIN TableRows(s) :
              TableRows(s)[i] = batch[((i - 1) % n) + 1]

\* scenario A: the first batch, of one record, written in one attempt, is
\* the one row of the new table
C12_Witness ==
  \E s \in sinks :
    /\ FirstWriteSucceeded(s)
    /\ call[s].batch.items = <<RecA>>
    /\ Attempts(call[s]) = 1
    /\ TableRows(s) =
         << <<Py("float", "12.5"), Py("str", "2024-01-01 00:00:00.000000")>> >>

(***************************************************************************)
(* Properties of the failure paths.                                        *)
(***************************************************************************)
\* the latest attempt of call c ended at driver call op with outcome
EndedAt(c, op, outcome) ==
  c.log # <<>> /\ c.log[Len(c.log)] = Event(op, outcome)

\* C13: when executemany raises mysql.connector.Error, the call ends with
\* that attempt (no sleep, no further attempt) and it ends by raising.
C13_InsertErrorRaises ==
  \A s \in sinks :
    LET c == call[s]
    IN EndedAt(c, "INSERT", "Error") =>
         /\ c.trace[Len(c.trace)].op = "attempt"
         /\ c.pc = "raised"

\* the latest attempt of call c ran _create_table, which got
\* mysql.connector.Error from cursor(), from the CREATE TABLE or from its
\* commit
CreationFailed(c) ==
  /\ c.log # <<>>
  /\ c.log[1] = Event("connect", "ok")
  /\ \/ Len(c.log) >= 2 /\ c.log[2] = Event("cursor", "Error")
     \/ Len(c.log) >= 4 /\ c.log[4] = Event("CREATE TABLE", "Error")
     \/ Len(c.log) >= 5 /\ c.log[4].op = "CREATE TABLE"
          /\ c.log[5] = Event("commit", "Error")

\* C14: when _create_table gets mysql.connector.Error, the attempt ends
\* by returning False, nothing is raised, and the attempt submits no
\* INSERT; the call returns with that attempt.
C14_CreationErrorSkipsInsert ==
  \A s \in sinks :
    LET c == call[s]
    IN CreationFailed(c) =>
         /\ c.trace[Len(c.trace)] = AttemptEnded("False")
         /\ c.pc = "returned"
         /\ c.result = "False"
         /\ c.insert = None
         /\ \A i \in DOMAIN c.log : c.log[i].op # "INSERT"

\* the CREATE TABLE of a batch of two records was rejected on the second
\* attempt of the call
C14_Witness ==
  \E s \in sinks :
    /\ EndedAt(call[s], "CREATE TABLE", "Error")
    /\ Len(call[s].batch.items) = 2
    /\ Attempts(call[s]) = 2
    /\ call[s].pc = "returned"

\* the ways mysql.connector.connect fails to give a connected session
ConnectFailures ==
  {[at |-> "connect", kind |-> "Error"],
   [at |-> "connect", kind |-> "not_connected"]}

\* C15: when connect raises mysql.connector.Error or gives a session that
\* is not connected, _connect_to_mysql returns False or None and leaves the
\* table name and the columns as they were; the attempt that met the
\* failure made no other driver call, submitted no CREATE TABLE and no
\* INSERT, and left the table name and the columns unset.
C15_ConnectFailureIsQuiet ==
  \A s \in sinks :
    LET c == call[s]
    IN /\ \A f \in ConnectFailures :
            LET r == ConnectToMysql(Self(s), f)
            IN /\ r.kind = "return"
               /\ r.value \in {"False", "None"}
               /\ r.self.table_name = table_name[s]
               /\ r.self.columns = columns[s]
       /\ (c.log # <<>> /\ c.log[1] \in
              {Event("connect", "Error"), Event("connect", "not_connected")}) =>
            /\ Len(c.log) = 1
            /\ c.create_table_sql = None
            /\ c.insert = None
            /\ table_name[s] = None
            /\ columns[s] = None
            /\ c.pc = "returned"
            /\ c.result = "False"

\* the driver handed back a session that is not connected, on the write
\* of a batch of records
C15_Witness ==
  \E s \in sinks :
    /\ EndedAt(call[s], "connect", "not_connected")
    /\ connection[s] = Some([is_connected |-> FALSE])
    /\ call[s].batch.items # <<>>
    /\ call[s].pc = "returned"

\* the last n elements of the sequence q
LastRows(q, n) == SubSeq(q, Len(q) - n + 1, Len(q))

IsPrefix(a, b) == Len(a) <= Len(b) /\ SubSeq(b, 1, Len(a)) = a

\* the committed rows of the table called name, none when it does not exist
RowsOf(srvr, name) ==
  IF srvr.tables[name] = None THEN <<>> ELSE srvr.tables[name][1].rows

\* C17: every attempt of write that reaches executemany, a retry included,
\* submits the whole batch, and the sink never rolls back: the rows an
\* attempt found in the open transaction of its session are still there
\* after it, or were committed to the table ahead of its own rows, unless
\* its last driver call failed in doubt and the server lost them.
C17_RetryKeepsSubmittedRows ==
  [][\A s \in sinks :
       (call[s].pc = "loop" /\ call'[s] # call[s]) =>
         LET c == call'[s]
             before == server.pending[s]
             after == server'.pending[s]
         IN /\ \A i \in DOMAIN c.log : c.log[i].op # "rollback"
            /\ (\E i \in DOMAIN c.log : c.log[i].op = "INSERT") =>
                 /\ c.insert # None
                 /\ c.insert[1].values =
                      RowValues(columns'[s][1], c.batch.items)
            /\ \/ IsPrefix(before, after)
               \/ after = <<>> /\ c.log[Len(c.log)].outcome \in Unsure
               \/ /\ after = <<>>
                  /\ c.insert # None
                  /\ \E new \in {<<>>, StmtRows(c.insert[1])} :
                       RowsOf(server', table_name'[s][1]) =
                         RowsOf(server, table_name'[s][1]) \o before \o new
    ]_vars

\* the one record of the batch of the first write is in the table twice:
\* the attempt that created the table submitted it and failed, the retry
\* submitted it again and committed
C17_Witness ==
  \E s \in sinks :
    /\ FirstWriteSucceeded(s)
    /\ call[s].batch.items = <<RecA>>
    /\ call[s].trace =
         <<AttemptEnded("ConnectionError"), Slept, AttemptEnded("True")>>
    /\ Len(TableRows(s)) = 2
    /\ TableRows(s)[1] = TableRows(s)[2]

(***************************************************************************)
(* Properties of the connection.                                           *)
(***************************************************************************)
\* C18: connect is called only as the first driver call of an attempt that
\* began with the table name unset; a step of a sink whose table name is
\* set leaves its connection as it is and makes no connect call; no step
\* closes a connection or unsets it.
C18_LockedSinkNeverDials ==
  [][\A s \in sinks :
       LET log == call'[s].log
       IN /\ \A i \in DOMAIN log :
               /\ log[i].op # "close"
               /\ (call'[s] # call[s] /\ log[i].op = "connect") =>
                    i = 1 /\ table_name[s] = None
          /\ table_name[s] # None => connection'[s] = connection[s]
          /\ connection[s] # None => connection'[s] # None
    ]_vars

\* a write on a created table used up its three attempts on
\* ConnectionErrors and the sink still holds the session of its first dial
C18_Witness ==
  \E s \in sinks :
    /\ call[s].created_before
    /\ call[s].pc = "raised"
    /\ call[s].result = "Exception"
    /\ call[s].batch.items # <<>>
    /\ connection[s] = Some([is_connected |-> TRUE])

NoReplacement ==
  \A d \in Callers : ~(tool_call[d].op = "update" /\ ~tool_call[d].append)

\* C20: when add_application_variable returns its success message, and no
\* call asked for the list to be replaced, the list of the application has
\* every variable that it had when the call began, and the new one.
C20_AddKeepsVariables ==
  [][\A c \in Callers :
       (/\ tool_call[c].op = "add"
        /\ tool_call[c].pc = "PATCH"
        /\ tool_call'[c].result = "Successfully"
        /\ NoReplacement) =>
         NamesOf(tool_call[c].before) \cup {tool_call[c].name}
           \subseteq NamesOf(app_variables')
    ]_vars

RECURSIVE Without(_, _)
\* the variables of list whose name is not in names, in the order of list
Without(list, names) ==
  IF list = <<>> THEN <<>>
  ELSE IF Head(list).name \in names THEN Without(Tail(list), names)
  ELSE <<Head(list)>> \o Without(Tail(list), names)

\* C21: the list update_application_variables builds from the answer to
\* its GET is, with append, the existing variables whose name is not among
\* the supplied ones, in their order, then all supplied variables, and
\* without append exactly the supplied list; that list is what the
\* application has once the PATCH was not refused.
C21_UpdateSendsFinalList ==
  [][\A c \in Callers :
       LET t == tool_call[c]
       IN t.op = "update" =>
            /\ (t.pc = "GET" /\ tool_call'[c].pc = "PATCH") =>
                 tool_call'[c].final =
                   IF t.append
                   THEN Without(app_variables, NamesOf(t.variables))
                          \o t.variables
                   ELSE t.variables
            /\ (t.pc = "PATCH" /\ tool_call'[c].pc = "done"
                  /\ tool_call'[c].result # "Error: QuixApiError") =>
                 app_variables' = t.final
    ]_vars

\* an appending update of v is about to send a list in which the variable
\* a kept its place and the new v, of another input type, comes last
C21_Witness ==
  \E c \in Callers :
    /\ tool_call[c].op = "update"
    /\ tool_call[c].pc = "PATCH"
    /\ tool_call[c].append
    /\ tool_call[c].variables = <<Variable("v", "Secret")>>
    /\ app_variables = <<Variable("v", "FreeText"), Variable("a", "FreeText")>>
    /\ tool_call[c].final =
         <<Variable("a", "FreeText"), Variable("v", "Secret")>>

(***************************************************************************)
(* Properties of load_config.                                              *)
(***************************************************************************)
\* the value of the source of highest priority that gives key k, in the
\* order of the docstring: defaults, environment, .env file, command line
Documented(k, environ, dotenv, args) ==
  CASE args[k] # None ->
         IF k = "quix_base_url" THEN Some(RStrip(args[k][1])) ELSE args[k]
    [] dotenv # None /\ dotenv[1][k] # None -> dotenv[1][k]
    [] environ[k] # None -> environ[k]
    [] OTHER -> DEFAULT_CONFIG[k]

\* C22: load_config gives each Quix key the value of the source of highest
\* priority that supplies it: the command line over the .env file, the
\* .env file over the process environment, the environment over the
\* default.
C22_ConfigPriority ==
  (loader.pc = "done" /\ loader.result[1].kind = "return") =>
    \A k \in QuixKeys :
      loader.result[1].config[k] =
        Documented(k, loader.environ, loader.dotenv, loader.args)

(***************************************************************************)
(* Termination of write.                                                   *)
(***************************************************************************)
\* how a call of write can end: the value of _write_to_mysql, the generic
\* Exception, backpressure, or the exception of the attempt
WriteEnds(c) ==
  LET last == c.trace[Len(c.trace)]
  IN /\ c.trace # <<>>
     /\ last.op = "attempt"
     /\ \/ c.pc = "returned" /\ c.result \in {"True", "False"}
                              /\ last.outcome = c.result
        \/ c.pc = "raised" /\ c.result = "Exception"
                            /\ last.outcome = "ConnectionError"
                            /\ c.attempts_remaining = 0
        \/ c.pc = "raised" /\ c.result = "SinkBackpressureError"
                            /\ last.outcome = "TimeoutError"
        \/ c.pc = "raised" /\ c.result = last.outcome
                            /\ c.result \notin
                                 {"True", "False", "ConnectionError",
                                  "TimeoutError"}

\* C23: every call of write makes at most 3 attempts and ends by returning,
\* by raising the generic Exception, by raising backpressure or by
\* propagating another exception; while it is in the loop each attempt
\* made so far has taken one from attempts_remaining, which stays positive.
C23_WriteTerminates ==
  \A s \in sinks :
    LET c == call[s]
    IN c.pc # "none" =>
         /\ Attempts(c) <= 3
         /\ c.pc \in {"loop", "returned", "raised"}
         /\ c.pc = "loop" =>
              /\ c.attempts_remaining \in 1..3
              /\ Attempts(c) = 3 - c.attempts_remaining
         /\ c.pc # "loop" => WriteEnds(c)

\* a call returned True on its third attempt
C23_Witness ==
  \E s \in sinks :
    /\ call[s].pc = "returned"
    /\ call[s].attempts_remaining = 1
    /\ call[s].trace =
         <<AttemptEnded("ConnectionError"), Slept,
           AttemptEnded("ConnectionError"), Slept, AttemptEnded("True")>>

(***************************************************************************)
(* The fields of a sink that has a table name.                             *)
(***************************************************************************)
\* C24: in every reachable state of a sink whose table_name is set, columns
\* is set and a connection object exists; no attempt of a call asked None
\* for a cursor (AttributeError) or built an INSERT from columns None
\* (TypeError).
C24_NamedSinkHasColumnsAndConnection ==
  \A s \in sinks :
    /\ table_name[s] # None => (columns[s] # None /\ connection[s] # None)
    /\ \A i \in DOMAIN call[s].log :
         call[s].log[i].outcome \notin {"AttributeError", "TypeError"}
    /\ call[s].result \notin {"AttributeError", "TypeError"}
    /\ call[s].insert # None =>
         /\ call[s].insert[1].columns = columns[s][1]
         /\ call[s].insert[1].table = table_name[s][1]

\* an INSERT was submitted on a sink whose CREATE TABLE had failed in an
\* earlier attempt
C24_Witness ==
  \E s \in sinks :
    /\ table_name[s] # None
    /\ ~created[s]
    /\ call[s].insert # None
    /\ \E i \in DOMAIN call[s].log : call[s].log[i].op = "INSERT"

(***************************************************************************)
(* The rows of a write that failed.                                        *)
(***************************************************************************)
\* C25: rows submitted by a write that ended in failure are never committed
\* later: no attempt rolls back, and the rows that the attempt in which a
\* write returns True adds to the table are all rows of its own batch.
C25_FailedRowsNeverCommitted ==
  [][\A s \in sinks :
       (/\ call[s].pc = "loop"
        /\ call'[s].pc = "returned"
        /\ call'[s].result = "True") =>
         LET c == call'[s]
             name == table_name'[s][1]
             before == RowsOf(server, name)
             after == RowsOf(server', name)
             own == StmtRows(c.insert[1])
         IN /\ \A i \in DOMAIN c.log : c.log[i].op # "rollback"
            /\ IsPrefix(before, after)
            /\ \A i \in (Len(before) + 1)..Len(after) :
                 \E j \in DOMAIN own : after[i] = own[j]
    ]_vars

(***************************************************************************)
(* The shape of the rows.                                                  *)
(***************************************************************************)
\* the keys of a record that are not among cols
ExtraKeys(record, cols) ==
  {record[i][1] : i \in 1..Len(record)} \ {cols[j] : j \in 1..Len(cols)}

\* C26: every row submitted to the database has exactly one value per
\* locked column, in the order of the locked columns: the value the record
\* has under that column, or null; the statement names the locked columns
\* and no other, whatever keys the records have, and a record with other
\* keys raises nothing.
C26_RowsFollowLockedColumns ==
  \A s \in sinks :
    LET c == call[s]
    IN c.insert # None =>
         LET stmt == c.insert[1]
             items == c.batch.items
         IN /\ columns[s] # None
            /\ stmt.columns = columns[s][1]
            /\ Len(stmt.values) = Len(items)
            /\ \A i \in 1..Len(items) :
                 /\ Len(stmt.values[i]) = Len(columns[s][1])
                 /\ \A j \in 1..Len(columns[s][1]) :
                      stmt.values[i][j] = Get(items[i], columns[s][1][j])
            /\ \A k \in DOMAIN c.log :
                 c.log[k].op \in {"cursor", "infer"} => c.log[k].outcome = "ok"
            /\ \E k \in DOMAIN c.log : c.log[k].op = "INSERT"

\* the write that created the table with the columns of its first record
\* submitted a second record none of whose keys is a column, and returned
\* True
C26_Witness ==
  \E s \in sinks :
    /\ ~call[s].created_before
    /\ call[s].pc = "returned"
    /\ call[s].result = "True"
    /\ call[s].batch.items = <<RecA, RecB>>
    /\ ExtraKeys(RecB, columns[s][1]) = {"flag", "count"}
    /\ call[s].insert[1].columns = <<"speed", "ts">>
    /\ call[s].insert[1].values[2] = <<PyNone, PyNone>>

(***************************************************************************)
(* Exceptions that write does not handle.                                  *)
(***************************************************************************)
\* the ways an attempt ends that write handles: a value of _write_to_mysql
\* and the exceptions of its except clauses
Handled == {"True", "False", "ConnectionError", "TimeoutError"}

C28_ConfigIdInRange ==
  \A i \in DOMAIN enrich.config_ids : enrich.config_ids[i] \in 1..10

====
